---- MODULE Spec2Model ----
(***************************************************************************)
(* State-machine model of the AI Learning Assistant backend                *)
(* (src/backend): the documents table behind services/vector_store.py,     *)
(* the two in-process quiz caches, and the request handlers of main.py.    *)
(*                                                                         *)
(* Every handler is a coroutine on one event loop.  The Supabase client is *)
(* synchronous, so a handler runs atomically from one awaited OpenAI call  *)
(* (embeddings.create, chat.completions.create, a read of the completion   *)
(* stream) to the next; each action below is one such atomic stretch.      *)
(*                                                                         *)
(* Optional values (Python's None) are sequences of length 0 or 1.         *)
(***************************************************************************)
EXTENDS Integers, Sequences, FiniteSets, Bags, TLC

VARIABLES
    documents,            \* the rows of the Supabase "documents" table: a bag of rows
    _quiz_answer_cache,   \* vector_store._quiz_answer_cache: session -> optional list of int
    _explanation_cache,   \* vector_store._explanation_cache: session -> optional list of str
    tasks,                \* the request coroutines: slot -> frame (pc, request, locals)
    ev                    \* what the last step did: request, store read, upstream call, response

vars == <<documents, _quiz_answer_cache, _explanation_cache, tasks, ev>>

----------------------------------------------------------------------------
(* Bounds of the model *)

\* number of request coroutines that can be in flight together
MaxTasks == 2
\* number of pieces the splitter yields for one extracted text
MaxPieces == 2
\* number of items in one model output
MaxItems == 2
\* largest input list handed to embed_chunks on its own (EmbedSpec)
MaxN == 201
\* number of deltas one completion stream carries
MaxDeltas == 2
\* longest chat history of a request
MaxTurns == 11
\* longest model output among those made of arbitrary symbols
MaxSyms == 3

(* Program constants *)

_BATCH_SIZE == 100
_MAX_CONTENT_CHARS == 12000
\* chunk_text keeps a piece when len(c.strip()) > 50
MIN_CHUNK_CHARS == 50
\* process_pdf rejects more than 15 * 1024 * 1024 bytes
MAX_PDF_BYTES == 15728640
\* get_chunks_for_session(session_id, limit=60)
FETCH_LIMIT == 60
\* stream_chat_response: top_k=5, threshold=0.1 (similarities are in tenths here)
CHAT_TOP_K == 5
CHAT_THRESHOLD == 1
\* stream_chat_response keeps history[-10:]
HISTORY_TURNS == 10

----------------------------------------------------------------------------
(* Values *)

None == <<>>
Some(x) == <<x>>

Min(a, b) == IF a < b THEN a ELSE b

RECURSIVE SeqsUpTo(_, _)
SeqsUpTo(S, n) ==
    IF n = 0 THEN {<<>>}
    ELSE LET shorter == SeqsUpTo(S, n - 1)
         IN  shorter \cup {Append(s, x) : s \in {q \in shorter : Len(q) = n - 1}, x \in S}

Sessions == {"s1", "s2"}
Slots == 1..MaxTasks

\* A text: what it is about (id), the length of its stripped form, and whether
\* it carries surrounding whitespace.
PieceA == [id |-> 1, len |-> 51, pad |-> TRUE]
PieceB == [id |-> 2, len |-> 800, pad |-> FALSE]
PieceS == [id |-> 3, len |-> 50, pad |-> TRUE]

\* An extracted text, given as the pieces RecursiveCharacterTextSplitter yields for it.
Texts == SeqsUpTo({PieceA, PieceS}, MaxPieces) \cup {<<PieceB>>}

\* What an extractor (get_transcript, extract_pdf_text) does with a source:
\* raise its HTTPException(400), or return a text.
Sources == {[fail |-> TRUE, text |-> <<>>]} \cup {[fail |-> FALSE, text |-> tx] : tx \in Texts}

\* Python exceptions, by class name; NoExc is a normal return
NoExc == "none"

----------------------------------------------------------------------------
(* services/chunking.py *)

\* a piece left as the splitter gave it
strip_nothing(c) == c

strip(c) == [c EXCEPT !.pad = FALSE]
len(c) == c.len + (IF c.pad THEN 2 ELSE 0)

RECURSIVE chunk_text(_)
chunk_text(text) ==
    IF text = <<>> THEN <<>>
    ELSE LET c == Head(text)
         IN  (IF len(strip(c)) > MIN_CHUNK_CHARS THEN <<strip(c)>> ELSE <<>>)
                 \o chunk_text(Tail(text))

----------------------------------------------------------------------------
(* services/embeddings.py *)

\* The vector the embedding model gives a text: a function of the text alone.
Embedding(c) == c.id

\* response.data of one embeddings.create call: one item per input, in order
EmbeddingsResponse(batch) == [k \in 1..Len(batch) |-> Embedding(batch[k])]

\* the loop state of embed_chunks: the input, the range() index i, all_embeddings
\* (calls counts the embeddings.create calls issued so far)
embed_frame(chunks) == [chunks |-> chunks, i |-> 0, all_embeddings |-> <<>>, calls |-> 0]
\* range(0, len(chunks), _BATCH_SIZE) has another i
embed_pending(f) == f.i < Len(f.chunks)
\* batch = chunks[i : i + _BATCH_SIZE]
\* a slice one text too long: chunks[i : i + _BATCH_SIZE + 1]
embed_batch_overlong(f) ==
    SubSeq(f.chunks, f.i + 1, IF f.i + _BATCH_SIZE + 1 < Len(f.chunks)
                              THEN f.i + _BATCH_SIZE + 1 ELSE Len(f.chunks))

embed_batch(f) == SubSeq(f.chunks, f.i + 1, Min(f.i + _BATCH_SIZE, Len(f.chunks)))
\* all_embeddings.extend(...), then the next i
embed_extend(f, data) ==
    [f EXCEPT !.all_embeddings = @ \o data, !.i = @ + _BATCH_SIZE]

\* client.embeddings.create(model=model, input=batch)
EmbeddingsCall(f) == [api |-> "embeddings.create", input |-> embed_batch(f)]
embed_issued(f) == [f EXCEPT !.calls = @ + 1]

----------------------------------------------------------------------------
(* services/vector_store.py *)

Row(session_id, chunk, embedding, source_type, idx) ==
    [session_id |-> session_id, content |-> chunk, embedding |-> embedding,
     source_type |-> source_type, chunk_index |-> idx]

\* rows built by store_chunks: enumerate(zip(chunks, embeddings))
store_rows(session_id, chunks, embeddings, source_type) ==
    [k \in 1..Min(Len(chunks), Len(embeddings)) |->
        Row(session_id, chunks[k], embeddings[k], source_type, k - 1)]

Range(q) == {q[k] : k \in 1..Len(q)}

\* client.table("documents").insert(rows)
store_chunks(docs, session_id, chunks, embeddings, source_type) ==
    docs (+) SetToBag(Range(store_rows(session_id, chunks, embeddings, source_type)))

\* the part of the table a filter keeps
Where(docs, kept) == [row \in kept \cap BagToSet(docs) |-> docs[row]]

\* .eq("session_id", session_id)
eq_session_id(docs, session_id) ==
    Where(docs, {row \in BagToSet(docs) : row.session_id = session_id})

\* a delete step that removes nothing
delete_rows_skipped(docs, session_id) == docs

\* a delete without the session filter
delete_rows_of_all(docs, session_id) == EmptyBag

delete_rows(docs, session_id) ==
    Where(docs, BagToSet(docs) \ BagToSet(eq_session_id(docs, session_id)))

\* a delete that leaves the cache entry in place
cache_kept(cache, session_id) == cache

\* del cache[session_id], when present
cache_del(cache, session_id) == [cache EXCEPT ![session_id] = None]

\* Every order a query may return the rows of b in, given its ORDER BY key
\* (ascending); rows with equal keys come in either order.
RECURSIVE Orders(_, _)
Orders(b, key) ==
    IF BagToSet(b) = {} THEN {<<>>}
    ELSE LET S == BagToSet(b)
             m == CHOOSE v \in {key[r] : r \in S} : \A r \in S : v <= key[r]
         IN  UNION {{<<r>> \o q : q \in Orders(b (-) SetToBag({r}), key)} :
                        r \in {x \in S : key[x] = m}}

Limit(q, n) == SubSeq(q, 1, Min(n, Len(q)))
Contents(q) == [k \in 1..Len(q) |-> q[k].content]

\* the same query without .eq("session_id", session_id)
get_chunks_of_any_session(docs, session_id, limit) ==
    {Contents(Limit(q, limit)) :
        q \in Orders(docs, [row \in BagToSet(docs) |-> row.chunk_index])}

\* .select("content, chunk_index").eq("session_id", session_id)
\*     .order("chunk_index").limit(limit), then the content of each row
get_chunks_for_session(docs, session_id, limit) ==
    LET rows == eq_session_id(docs, session_id)
    IN  {Contents(Limit(q, limit)) :
            q \in Orders(rows, [row \in BagToSet(rows) |-> row.chunk_index])}

\* cosine similarity of two vectors, in tenths
Similarity(u, v) == IF u = v THEN 10 ELSE IF u = 0 \/ v = 0 THEN 0 ELSE 1

\* The match_documents RPC: the rows of the session whose similarity to the
\* query meets the threshold, most similar first, at most match_count.
match_documents(docs, query_embedding, match_threshold, match_count, p_session_id) ==
    LET rows == Where(docs, {row \in BagToSet(docs) :
                                /\ row.session_id = p_session_id
                                /\ Similarity(query_embedding, row.embedding)
                                       >= match_threshold})
    IN  {Limit(q, match_count) :
            q \in Orders(rows, [row \in BagToSet(rows) |->
                                   0 - Similarity(query_embedding, row.embedding)])}

retrieve_relevant_chunks(docs, query_embedding, session_id, top_k, threshold) ==
    {Contents(q) : q \in match_documents(docs, query_embedding, threshold, top_k, session_id)}

\* a cache write that appends to the entry of an earlier generation
cache_quiz_answers_appended(cache, session_id, answers) ==
    [cache EXCEPT ![session_id] = IF @ = <<>> THEN <<answers>> ELSE <<@[1] \o answers>>]

\* a cache write that keeps the entry of an earlier generation
cache_quiz_answers_kept(cache, session_id, answers) ==
    [cache EXCEPT ![session_id] = IF @ = <<>> THEN <<answers>> ELSE @]

cache_quiz_answers(cache, session_id, answers) ==
    [cache EXCEPT ![session_id] = Some(answers)]

\* Python's list[i]: a negative i counts from the end
PyIndex(list, i) ==
    IF i >= 0 /\ i < Len(list) THEN [exc |-> NoExc, at |-> i + 1]
    ELSE IF i < 0 /\ i >= 0 - Len(list) THEN [exc |-> NoExc, at |-> Len(list) + i + 1]
    ELSE [exc |-> "IndexError", at |-> 0]

\* get_cached_answer: None, or the pair, or the exception the subscripts raise
get_cached_answer(quiz_cache, expl_cache, session_id, question_index) ==
    LET indices == quiz_cache[session_id]
        explanations == expl_cache[session_id]
    IN  IF indices = None \/ question_index >= Len(indices[1])
        THEN [exc |-> NoExc, result |-> None]
        ELSE LET a == PyIndex(indices[1], question_index)
             IN  IF a.exc # NoExc THEN [exc |-> a.exc, result |-> None]
                 ELSE IF explanations = None THEN [exc |-> "TypeError", result |-> None]
                 ELSE LET b == PyIndex(explanations[1], question_index)
                      IN  IF b.exc # NoExc THEN [exc |-> b.exc, result |-> None]
                          ELSE [exc |-> NoExc,
                                result |-> Some([correct_index |-> indices[1][a.at],
                                                 explanation |-> explanations[1][b.at]])]

----------------------------------------------------------------------------
(* utils.py, services/generation.py *)

\* len(sep.join(chunks))
RECURSIVE JoinLen(_, _)
JoinLen(chunks, sep) ==
    IF chunks = <<>> THEN 0
    ELSE IF Len(chunks) = 1 THEN len(chunks[1])
    ELSE len(chunks[1]) + sep + JoinLen(Tail(chunks), sep)

\* "\n\n".join(chunks)[:max_chars]: the chunks joined and the characters kept
_truncate_content(chunks) ==
    [chunks |-> chunks, chars |-> Min(JoinLen(chunks, 2), _MAX_CONTENT_CHARS)]

CompletionCall(prompt, count, content) ==
    [api |-> "chat.completions.create", stream |-> FALSE,
     prompt |-> prompt, count |-> count, content |-> content]

\* A model output is a text: a sequence of symbols.  The punctuation of the
\* top level of a JSON value ("[", "]", "{", "}"), a fence marker of three
\* backticks, a single backtick, the word json, a newline, a word of prose, a
\* JSON literal (a number, a string, null, a boolean), and the serialization
\* of one array element (elem), which carries the item it parses to.
Sym(c) == [c |-> c]
Elem(item) == [c |-> "elem", v |-> item]

\* an array element that is no JSON object
NonObject ==
    [type |-> "str", keys |-> {}, question |-> "", options |-> <<>>,
     correct_index |-> [t |-> "int", v |-> 0], explanation |-> ""]

\* the string values of items; one of them holds a fence marker with a json
\* tag, one holds square brackets and the word json
StringFields == {"front", "back", "question", "explanation"}
\* (FENCE stands for the three backticks)
FenceString == "see FENCEjson x"
BracketString == "[x] json"

\* re.sub(r"```(?:json)?\n?", "", s) on a string value
re_sub_string(str) == IF str = FenceString THEN "see  x" ELSE str

\* the same substitution inside the serialization of an element
re_sub_item(item) ==
    [f \in DOMAIN item |-> IF f \in StringFields THEN re_sub_string(item[f]) ELSE item[f]]

\* re.sub(r"```(?:json)?\n?", "", text): every fence marker goes, with the
\* json tag and the newline that follow it, wherever it stands
RECURSIVE re_sub(_)
re_sub(text) ==
    IF text = <<>> THEN <<>>
    ELSE IF Head(text).c = "fence"
    THEN LET r1 == Tail(text)
             r2 == IF r1 # <<>> /\ r1[1].c = "json" THEN Tail(r1) ELSE r1
             r3 == IF r2 # <<>> /\ r2[1].c = "nl" THEN Tail(r2) ELSE r2
         IN  re_sub(r3)
    ELSE IF Head(text).c = "elem"
    THEN <<Elem(re_sub_item(Head(text).v))>> \o re_sub(Tail(text))
    ELSE <<Head(text)>> \o re_sub(Tail(text))

\* text.rstrip(chars)
RECURSIVE rstrip(_, _)
rstrip(text, chars) ==
    IF text # <<>> /\ text[Len(text)].c \in chars
    THEN rstrip(SubSeq(text, 1, Len(text) - 1), chars)
    ELSE text

RECURSIVE lstrip(_, _)
lstrip(text, chars) ==
    IF text # <<>> /\ text[1].c \in chars THEN lstrip(Tail(text), chars) ELSE text

\* text.strip()
strip_text(text) == lstrip(rstrip(text, {"nl"}), {"nl"})

IsArray(q) ==
    /\ Len(q) >= 2 /\ q[1].c = "[" /\ q[Len(q)].c = "]"
    /\ \A k \in 2..(Len(q) - 1) : q[k].c \in {"elem", "lit"}

ArrayItems(q) ==
    [k \in 1..(Len(q) - 2) |-> IF q[k + 1].c = "elem" THEN q[k + 1].v ELSE NonObject]

\* json.loads(text): a list, a dict (with its list values), another value, or
\* JSONDecodeError.  Newlines between tokens are whitespace.
json_loads(text) ==
    LET q == SelectSeq(text, LAMBDA sym : sym.c # "nl")
        n == Len(q)
    IN  IF IsArray(q) THEN [kind |-> "list", list |-> ArrayItems(q), lists |-> <<>>]
        ELSE IF n = 2 /\ q[1].c = "{" /\ q[2].c = "}"
        THEN [kind |-> "dict", list |-> <<>>, lists |-> <<>>]
        ELSE IF n > 2 /\ q[1].c = "{" /\ q[n].c = "}" /\ IsArray(SubSeq(q, 2, n - 1))
        THEN [kind |-> "dict", list |-> <<>>, lists |-> <<ArrayItems(SubSeq(q, 2, n - 1))>>]
        ELSE IF n = 1 /\ q[1].c = "elem" /\ q[1].v.type = "dict"
        THEN [kind |-> "dict", list |-> <<>>,
              lists |-> IF "options" \in q[1].v.keys
                        THEN <<[k \in 1..Len(q[1].v.options) |-> NonObject]>>
                        ELSE <<>>]
        ELSE IF n = 1 /\ q[1].c \in {"elem", "lit"}
        THEN [kind |-> "scalar", list |-> <<>>, lists |-> <<>>]
        ELSE [kind |-> "error", list |-> <<>>, lists |-> <<>>]

\* the serialization of the element holds square brackets: those of its
\* options list, those inside a string value
HasOptions(sym) == sym.c = "elem" /\ sym.v.type = "dict" /\ "options" \in sym.v.keys
HasBracketString(sym) ==
    /\ sym.c = "elem"
    /\ \E f \in DOMAIN sym.v \cap StringFields : sym.v[f] = BracketString

\* re.search(r"\[.*\]", text, re.DOTALL) and json.loads of the match: from the
\* first "[" of the text to its last "]"
search_loads(text) ==
    LET opens == {k \in 1..Len(text) :
                     text[k].c = "[" \/ HasOptions(text[k]) \/ HasBracketString(text[k])}
        closes == {k \in 1..Len(text) :
                      text[k].c = "]" \/ HasOptions(text[k]) \/ HasBracketString(text[k])}
        a == CHOOSE k \in opens : \A j \in opens : k <= j
        b == CHOOSE k \in closes : \A j \in closes : k >= j
        whole == json_loads(SubSeq(text, a, b))
    IN  IF opens = {} \/ closes = {} THEN [match |-> FALSE, kind |-> "none", list |-> <<>>]
        ELSE IF b < a THEN [match |-> FALSE, kind |-> "none", list |-> <<>>]
        ELSE IF text[a].c = "[" /\ text[b].c = "]"
        THEN [match |-> TRUE, kind |-> whole.kind, list |-> whole.list]
        ELSE IF a = b /\ HasOptions(text[a]) /\ ~HasBracketString(text[a])
        THEN [match |-> TRUE, kind |-> "list",
              list |-> [k \in 1..Len(text[a].v.options) |-> NonObject]]
        ELSE [match |-> TRUE, kind |-> "error", list |-> <<>>]

\* what parse_json_response returns or raises; excerpt: the exception carries
\* text[:500]
Parsed(list) == [exc |-> NoExc, list |-> list, excerpt |-> FALSE]
ParseError(exc, excerpt) == [exc |-> exc, list |-> <<>>, excerpt |-> excerpt]

parse_json_response(raw) ==
    LET text == strip_text(rstrip(strip_text(re_sub(raw)), {"tick"}))
        result == json_loads(text)
        found == search_loads(text)
    IN  CASE result.kind = "list" -> Parsed(result.list)
          [] result.kind = "dict" ->
                IF result.lists # <<>> THEN Parsed(result.lists[1])
                ELSE ParseError("ValueError", FALSE)
          [] result.kind = "scalar" -> ParseError("AttributeError", FALSE)
          [] result.kind = "error" ->
                IF ~found.match THEN ParseError("ValueError", TRUE)
                ELSE IF found.kind = "list" THEN Parsed(found.list)
                ELSE ParseError("JSONDecodeError", FALSE)

\* int(x) of a JSON value: an integer, a string of digits, another string, null
int(x) ==
    CASE x.t = "int" -> [exc |-> NoExc, v |-> x.v]
      [] x.t = "digits" -> [exc |-> NoExc, v |-> x.v]
      [] x.t = "word" -> [exc |-> "ValueError", v |-> 0]
      [] x.t = "null" -> [exc |-> "TypeError", v |-> 0]

JsonInt(n) == [t |-> "int", v |-> n]

\* q.get(key, default)
get(q, key, default) == IF key \in q.keys THEN q[key] ELSE default

\* the question dict with the explanation of the model output left in
safe_question_explained(q) ==
    [question |-> IF "question" \in q.keys THEN q.question ELSE "",
     options |-> IF "options" \in q.keys THEN q.options ELSE <<>>,
     explanation |-> IF "explanation" \in q.keys THEN q.explanation ELSE ""]

\* the question dict generate_quiz returns for q
safe_question(q) ==
    [question |-> get(q, "question", ""),
     options |-> get(q, "options", <<>>),
     explanation |-> ""]

\* a loop that appends an explanation only for the items that have one
RECURSIVE quiz_loop_uneven(_)
quiz_loop_uneven(questions) ==
    IF questions = <<>>
    THEN [exc |-> NoExc, safe_questions |-> <<>>, correct_indices |-> <<>>, explanations |-> <<>>]
    ELSE LET q == Head(questions)
             rest == quiz_loop_uneven(Tail(questions))
         IN  IF q.type # "dict" THEN rest
             ELSE [exc |-> NoExc,
                   safe_questions |->
                       <<[question |-> q.question, options |-> q.options, explanation |-> ""]>>
                           \o rest.safe_questions,
                   correct_indices |-> <<q.correct_index.v>> \o rest.correct_indices,
                   explanations |->
                       (IF "explanation" \in q.keys THEN <<q.explanation>> ELSE <<>>)
                           \o rest.explanations]

\* the loop of generate_quiz over the parsed items: the three lists it builds,
\* or the exception int() raises on the way
RECURSIVE quiz_loop(_)
quiz_loop(questions) ==
    IF questions = <<>>
    THEN [exc |-> NoExc, safe_questions |-> <<>>, correct_indices |-> <<>>, explanations |-> <<>>]
    ELSE LET q == Head(questions)
             n == int(get(q, "correct_index", JsonInt(0)))
             rest == quiz_loop(Tail(questions))
         IN  IF q.type # "dict" THEN rest
             ELSE IF n.exc # NoExc
             THEN [exc |-> n.exc, safe_questions |-> <<>>, correct_indices |-> <<>>,
                   explanations |-> <<>>]
             ELSE IF rest.exc # NoExc THEN rest
             ELSE [exc |-> NoExc,
                   safe_questions |-> <<safe_question(q)>> \o rest.safe_questions,
                   correct_indices |-> <<n.v>> \o rest.correct_indices,
                   explanations |-> <<get(q, "explanation", "")>> \o rest.explanations]

\* the loop of generate_flashcards over the parsed items
RECURSIVE validate_cards(_)
validate_cards(cards) ==
    IF cards = <<>> THEN <<>>
    ELSE LET card == Head(cards)
         IN  (IF card.type = "dict" /\ "front" \in card.keys /\ "back" \in card.keys
              THEN <<[front |-> card.front, back |-> card.back]>>
              ELSE <<>>) \o validate_cards(Tail(cards))

\* main.py: except ValueError -> 404; anything else is an unhandled 500
\* (JSONDecodeError is a subclass of ValueError)
endpoint_status(exc) == IF exc \in {"ValueError", "JSONDecodeError"} THEN 404 ELSE 500

----------------------------------------------------------------------------
(* services/rag.py *)

\* the join alone, without the placeholder
build_context_joined(chunks) ==
    [placeholder |-> FALSE, chunks |-> chunks,
     chars |-> IF chunks = <<>> THEN 0 ELSE JoinLen(chunks, 7)]

\* "\n\n---\n\n".join(chunks), or the placeholder sentence (68 characters)
build_context(chunks) ==
    IF chunks # <<>>
    THEN [placeholder |-> FALSE, chunks |-> chunks, chars |-> JoinLen(chunks, 7)]
    ELSE [placeholder |-> TRUE, chunks |-> <<>>, chars |-> 68]

\* the first ten turns: history[:10]
FirstTurns(history) == SubSeq(history, 1, Min(Len(history), HISTORY_TURNS))

\* history[-10:]
LastTurns(history) ==
    SubSeq(history, Len(history) - Min(Len(history), HISTORY_TURNS) + 1, Len(history))

build_messages(context, history, message) ==
    <<[role |-> "system", context |-> context]>>
        \o [k \in 1..Len(LastTurns(history)) |->
                [role |-> LastTurns(history)[k].role, content |-> LastTurns(history)[k].content]]
        \o <<[role |-> "user", content |-> message]>>

StreamCall(messages) ==
    [api |-> "chat.completions.create", stream |-> TRUE, messages |-> messages]

----------------------------------------------------------------------------
(* Frames and events *)

Idle == [pc |-> "idle"]

\* What one step did: the request it belongs to, the chunk texts a store read
\* returned to it, the upstream response it consumed, the upstream call it
\* issued, and what it sent to the caller (HTTP responses, SSE events).
\* replaced: what the request has removed of its session so far, the number of
\* stored rows deleted and whether a cache entry was deleted or overwritten.
NothingReplaced == [rows |-> 0, answers |-> FALSE]

\* stream: of a chat response, the SSE events sent so far and the texts of the
\* deltas read from the model stream so far.
NoStream == [sent |-> <<>>, deltas |-> <<>>]

Event(op, read, recv, net, out) ==
    [op |-> op, read |-> read, recv |-> recv, net |-> net, out |-> out,
     replaced |-> NothingReplaced, stream |-> NoStream]

Replacing(event, r) == [event EXCEPT !.replaced = r]

\* a step of a chat response: what it sends is appended to the stream
Streaming(event, stream, items) ==
    [event EXCEPT !.stream = [sent |-> stream.sent \o event.out,
                              deltas |-> stream.deltas \o items]]

NoEvent == Event([kind |-> "none"], None, None, None, <<>>)

HTTP(status, detail) == [status |-> status, detail |-> detail]
Raised(exc) == HTTP(endpoint_status(exc), exc)

SSE(kind, data) == [sse |-> kind, data |-> data]

\* an error event that is not followed by the end marker
ErrorOnly == <<SSE("error", "str(e)")>>

\* generate(): except Exception -> the error event, then [DONE]
ErrorThenDone == <<SSE("error", "str(e)"), SSE("done", "[DONE]")>>

UpstreamError == [ok |-> FALSE]
\* the match_documents RPC raising
SearchError == [ok |-> FALSE, rpc |-> "match_documents"]

Finish(t, event) ==
    /\ tasks' = [tasks EXCEPT ![t] = Idle]
    /\ ev' = event

Suspend(t, frame, event) ==
    /\ tasks' = [tasks EXCEPT ![t] = frame]
    /\ ev' = event

caches == <<_quiz_answer_cache, _explanation_cache>>

----------------------------------------------------------------------------
(* main.py: /process-video and /process-pdf *)

source_type(op) == IF op.kind = "process_video" THEN "youtube" ELSE "pdf"

\* what delete_session_data(session_id) removes in the current state
Replaced(session_id) ==
    [rows |-> BagCardinality(eq_session_id(documents, session_id)),
     answers |-> (_quiz_answer_cache[session_id] # None)]

\* delete_session_data(session_id)
delete_session(session_id) ==
    /\ documents' = delete_rows(documents, session_id)
    /\ _quiz_answer_cache' = cache_del(_quiz_answer_cache, session_id)
    /\ _explanation_cache' = cache_del(_explanation_cache, session_id)

\* from delete_session_data to the first embeddings call: lines 64-70, 99-106
ingest(t, op, source) ==
    /\ delete_session(op.session_id)
    /\ LET r == Replaced(op.session_id)
       IN  IF source.fail
           THEN Finish(t, Replacing(Event(op, None, None, None, <<HTTP(400, "extractor")>>), r))
           ELSE LET chunks == chunk_text(source.text)
                    f == embed_frame(chunks)
                IN  IF chunks = <<>>
                    THEN Finish(t, Replacing(Event(op, None, None, None,
                                                   <<HTTP(422, "too short")>>), r))
                    ELSE Suspend(t, [pc |-> "embed", op |-> op, f |-> embed_issued(f),
                                     replaced |-> r],
                                 Replacing(Event(op, None, None, Some(EmbeddingsCall(f)), <<>>),
                                           r))

process_video(t, data) ==
    /\ tasks[t].pc = "idle"
    /\ ingest(t, data, data.url)

\* base64_data: an optional "data:...," prefix, then text that decodes or not
process_pdf(t, data) ==
    /\ tasks[t].pc = "idle"
    /\ LET file == data.base64_data
       IN  IF ~file.valid
           THEN /\ Finish(t, Event(data, None, None, None, <<HTTP(400, "base64")>>))
                /\ UNCHANGED <<documents, caches>>
           ELSE IF file.size > MAX_PDF_BYTES
           THEN /\ Finish(t, Event(data, None, None, None, <<HTTP(400, "too large")>>))
                /\ UNCHANGED <<documents, caches>>
           ELSE ingest(t, data, file.pdf)

\* an embeddings call of embed_chunks returns (ok) or raises, inside an
\* ingestion: the next batch, or store_chunks and the response
ingest_embedded(t, ok) ==
    /\ tasks[t].pc = "embed"
    /\ tasks[t].op.kind \in {"process_video", "process_pdf"}
    /\ LET op == tasks[t].op
           f == tasks[t].f
           g == embed_extend(f, EmbeddingsResponse(embed_batch(f)))
           r == tasks[t].replaced
       IN  IF ~ok
           THEN /\ Finish(t, Replacing(Event(op, None, Some(UpstreamError), None,
                                             <<Raised("APIError")>>), r))
                /\ UNCHANGED <<documents, caches>>
           ELSE IF embed_pending(g)
           THEN /\ Suspend(t, [tasks[t] EXCEPT !.f = embed_issued(g)],
                           Replacing(Event(op, None, Some([ok |-> TRUE]),
                                           Some(EmbeddingsCall(g)), <<>>), r))
                /\ UNCHANGED <<documents, caches>>
           ELSE /\ documents' = store_chunks(documents, op.session_id, g.chunks,
                                             g.all_embeddings, source_type(op))
                /\ Finish(t, Replacing(Event(op, None, Some([ok |-> TRUE]), None,
                                             <<[status |-> 200, session_id |-> op.session_id,
                                                chunk_count |-> Len(g.chunks)]>>), r))
                /\ UNCHANGED caches

\* vector_store.delete_session_data called on its own
delete_session_data(t, session_id) ==
    /\ tasks[t].pc = "idle"
    /\ delete_session(session_id)
    /\ Finish(t, Replacing(Event([kind |-> "delete_session_data", session_id |-> session_id],
                                 None, None, None, <<>>), Replaced(session_id)))

\* `return all_embeddings`, with the number of calls it took
Returned(f) == [exc |-> NoExc, vectors |-> f.all_embeddings, calls |-> f.calls]

\* embeddings.embed_chunks called on its own
embed_chunks(t, chunks) ==
    /\ tasks[t].pc = "idle"
    /\ LET op == [kind |-> "embed_chunks", chunks |-> chunks]
           f == embed_frame(chunks)
       IN  IF embed_pending(f)
           THEN Suspend(t, [pc |-> "embed", op |-> op, f |-> embed_issued(f)],
                        Event(op, None, None, Some(EmbeddingsCall(f)), <<>>))
           ELSE Finish(t, Event(op, None, None, None, <<Returned(f)>>))
    /\ UNCHANGED <<documents, caches>>

embed_chunks_resumed(t, ok) ==
    /\ tasks[t].pc = "embed"
    /\ tasks[t].op.kind = "embed_chunks"
    /\ LET op == tasks[t].op
           f == tasks[t].f
           g == embed_extend(f, EmbeddingsResponse(embed_batch(f)))
       IN  IF ~ok
           THEN Finish(t, Event(op, None, Some(UpstreamError), None,
                                <<[exc |-> "APIError", vectors |-> <<>>, calls |-> f.calls]>>))
           ELSE IF embed_pending(g)
           THEN Suspend(t, [tasks[t] EXCEPT !.f = embed_issued(g)],
                        Event(op, None, Some([ok |-> TRUE]), Some(EmbeddingsCall(g)), <<>>))
           ELSE Finish(t, Event(op, None, Some([ok |-> TRUE]), None, <<Returned(g)>>))
    /\ UNCHANGED <<documents, caches>>

----------------------------------------------------------------------------
(* main.py: /generate-flashcards, /generate-quiz (services/generation.py) *)

\* a generation without the check
no_content_unchecked(chunks) == FALSE

\* `if not chunks`
no_content(chunks) == chunks = <<>>

\* from get_chunks_for_session to the completion call
generate(t, data, prompt) ==
    /\ tasks[t].pc = "idle"
    /\ \E chunks \in get_chunks_for_session(documents, data.session_id, FETCH_LIMIT) :
          IF no_content(chunks)
          THEN Finish(t, Event(data, Some(chunks), None, None, <<Raised("ValueError")>>))
          ELSE Suspend(t, [pc |-> "completion", op |-> data],
                       Event(data, Some(chunks), None,
                             Some(CompletionCall(prompt, data.count, _truncate_content(chunks))),
                             <<>>))
    /\ UNCHANGED <<documents, caches>>

generate_flashcards_endpoint(t, data) == generate(t, data, "FLASHCARD_PROMPT")

generate_quiz_endpoint(t, data) == generate(t, data, "QUIZ_PROMPT")

\* the completion call of generate_flashcards returns or raises
generate_flashcards_resumed(t, response) ==
    /\ tasks[t].pc = "completion"
    /\ tasks[t].op.kind = "generate_flashcards"
    /\ LET op == tasks[t].op
           cards == parse_json_response(response.raw)
       IN  IF ~response.ok
           THEN Finish(t, Event(op, None, Some(response), None, <<Raised("APIError")>>))
           ELSE IF cards.exc # NoExc
           THEN Finish(t, Event(op, None, Some(response), None, <<Raised(cards.exc)>>))
           ELSE Finish(t, Event(op, None, Some(response), None,
                                <<[status |-> 200,
                                   flashcards |-> validate_cards(cards.list)]>>))
    /\ UNCHANGED <<documents, caches>>

\* a generation that caches its still empty lists and then fails
generate_quiz_resumed_clearing(t, response) ==
    /\ tasks[t].pc = "completion"
    /\ tasks[t].op.kind = "generate_quiz"
    /\ _quiz_answer_cache' = cache_quiz_answers(_quiz_answer_cache, tasks[t].op.session_id, <<>>)
    /\ _explanation_cache' = cache_quiz_answers(_explanation_cache, tasks[t].op.session_id, <<>>)
    /\ Finish(t, Event(tasks[t].op, None, Some(response), None, <<Raised("APIError")>>))
    /\ UNCHANGED documents

\* the completion call of generate_quiz returns or raises
generate_quiz_resumed(t, response) ==
    /\ tasks[t].pc = "completion"
    /\ tasks[t].op.kind = "generate_quiz"
    /\ LET op == tasks[t].op
           questions == parse_json_response(response.raw)
           built == quiz_loop(questions.list)
       IN  IF ~response.ok
           THEN /\ Finish(t, Event(op, None, Some(response), None, <<Raised("APIError")>>))
                /\ UNCHANGED caches
           ELSE IF questions.exc # NoExc
           THEN /\ Finish(t, Event(op, None, Some(response), None, <<Raised(questions.exc)>>))
                /\ UNCHANGED caches
           ELSE IF built.exc # NoExc
           THEN /\ Finish(t, Event(op, None, Some(response), None, <<Raised(built.exc)>>))
                /\ UNCHANGED caches
           ELSE /\ _quiz_answer_cache' =
                       cache_quiz_answers(_quiz_answer_cache, op.session_id, built.correct_indices)
                /\ _explanation_cache' =
                       cache_quiz_answers(_explanation_cache, op.session_id, built.explanations)
                /\ Finish(t, Replacing(Event(op, None, Some(response), None,
                                             <<[status |-> 200,
                                                questions |-> built.safe_questions]>>),
                                       [rows |-> 0,
                                        answers |-> (_quiz_answer_cache[op.session_id] # None)]))
    /\ UNCHANGED documents

\* utils.parse_json_response called on its own, on the text the slot holds
parse(t) ==
    /\ tasks[t].pc = "parse"
    /\ Finish(t, Event([kind |-> "parse_json_response", raw |-> tasks[t].raw],
                       None, None, None, <<parse_json_response(tasks[t].raw)>>))
    /\ UNCHANGED <<documents, caches>>

----------------------------------------------------------------------------
(* main.py: /check-answer *)

\* a comparison that also accepts every larger selected index
correct_or_above(selected_index, correct_index) == selected_index >= correct_index

\* correct=(data.selected_index == correct_index)
correct(selected_index, correct_index) == selected_index = correct_index

check_answer(t, data) ==
    /\ tasks[t].pc = "idle"
    /\ LET got == get_cached_answer(_quiz_answer_cache, _explanation_cache,
                                    data.session_id, data.question_index)
       IN  IF got.exc # NoExc
           THEN Finish(t, Event(data, None, None, None, <<Raised(got.exc)>>))
           ELSE IF got.result = None
           THEN Finish(t, Event(data, None, None, None, <<HTTP(404, "No quiz found")>>))
           ELSE Finish(t, Event(data, None, None, None,
                     <<[status |-> 200,
                        correct |-> correct(data.selected_index, got.result[1].correct_index),
                        correct_index |-> got.result[1].correct_index,
                        explanation |-> got.result[1].explanation]>>))
    /\ UNCHANGED <<documents, caches>>

----------------------------------------------------------------------------
(* main.py: /chat (services/rag.py) *)

\* generate() starts stream_chat_response: embed_single(message)
chat(t, data) ==
    /\ tasks[t].pc = "idle"
    /\ LET f == embed_frame(<<data.message>>)
       IN  Suspend(t, [pc |-> "chat_embed", op |-> data, f |-> embed_issued(f)],
                   Event(data, None, None, Some(EmbeddingsCall(f)), <<>>))
    /\ UNCHANGED <<documents, caches>>

\* the embeddings call returns or raises; then the similarity search returns
\* (found) or raises; then the prompt and the completion call
chat_embedded(t, ok, found) ==
    /\ tasks[t].pc = "chat_embed"
    /\ LET op == tasks[t].op
           f == tasks[t].f
           g == embed_extend(f, EmbeddingsResponse(embed_batch(f)))
       IN  IF ~ok
           THEN Finish(t, Streaming(Event(op, None, Some(UpstreamError), None, ErrorThenDone),
                                    NoStream, <<>>))
           ELSE IF embed_pending(g)
           THEN Suspend(t, [tasks[t] EXCEPT !.f = embed_issued(g)],
                        Event(op, None, Some([ok |-> TRUE]), Some(EmbeddingsCall(g)), <<>>))
           ELSE IF ~found
           THEN Finish(t, Streaming(Event(op, None, Some(SearchError), None, ErrorThenDone),
                                    NoStream, <<>>))
           ELSE \E chunks \in retrieve_relevant_chunks(documents, g.all_embeddings[1],
                                                      op.session_id, CHAT_TOP_K, CHAT_THRESHOLD) :
                    Suspend(t, [pc |-> "chat_open", op |-> op],
                            Event(op, Some(chunks), Some([ok |-> TRUE]),
                                  Some(StreamCall(build_messages(build_context(chunks),
                                                                 op.history, op.message))),
                                  <<>>))
    /\ UNCHANGED <<documents, caches>>

\* chat.completions.create(stream=True) returns the stream or raises
chat_opened(t, ok) ==
    /\ tasks[t].pc = "chat_open"
    /\ LET op == tasks[t].op
       IN  IF ~ok
           THEN Finish(t, Streaming(Event(op, None, Some(UpstreamError), None, ErrorThenDone),
                                    NoStream, <<>>))
           ELSE Suspend(t, [pc |-> "chat_stream", op |-> op, n_read |-> 0,
                            stream |-> NoStream],
                        Event(op, None, Some([ok |-> TRUE]), None, <<>>))
    /\ UNCHANGED <<documents, caches>>

\* a loop that yields every delta, the empty ones too
forward_every(text) == <<SSE("token", text)>>

\* `if delta: yield delta`, then the SSE frame of the token
forward(text) == IF text # "" THEN <<SSE("token", text)>> ELSE <<>>

\* one read of the stream: a delta (its text may be empty), the end, or an error
chat_delta(t, item) ==
    /\ tasks[t].pc = "chat_stream"
    /\ LET op == tasks[t].op
           so_far == tasks[t].stream
       IN  CASE item.kind = "delta" ->
                  LET event == Streaming(Event(op, None, Some(item), None, forward(item.text)),
                                         so_far, <<item.text>>)
                  IN  /\ tasks[t].n_read < MaxDeltas
                      /\ Suspend(t, [tasks[t] EXCEPT !.n_read = @ + 1,
                                                     !.stream = event.stream],
                                 event)
             [] item.kind = "end" ->
                  Finish(t, Streaming(Event(op, None, Some(item), None,
                                            <<SSE("done", "[DONE]")>>), so_far, <<>>))
             [] item.kind = "error" ->
                  Finish(t, Streaming(Event(op, None, Some(item), None, ErrorThenDone),
                                      so_far, <<>>))
    /\ UNCHANGED <<documents, caches>>

\* the caller has gone
Aborted == [kind |-> "abort", text |-> ""]

\* what the response has sent and read when the request is at frame
StreamOf(frame) == IF frame.pc = "chat_stream" THEN frame.stream ELSE NoStream

\* an abort after which the session of the request is cleaned up
chat_aborted_cleaning(t) ==
    /\ tasks[t].pc \in {"chat_embed", "chat_open", "chat_stream"}
    /\ delete_session(tasks[t].op.session_id)
    /\ Finish(t, Streaming(Event(tasks[t].op, None, Some(Aborted), None, <<>>),
                           StreamOf(tasks[t]), <<>>))

\* the caller aborts the stream: the generator is cancelled where it is
\* suspended (no `except Exception` catches a cancellation), nothing more
\* is sent and nothing else runs
chat_aborted(t) ==
    /\ tasks[t].pc \in {"chat_embed", "chat_open", "chat_stream"}
    /\ Finish(t, Streaming(Event(tasks[t].op, None, Some(Aborted), None, <<>>),
                           StreamOf(tasks[t]), <<>>))
    /\ UNCHANGED <<documents, caches>>

----------------------------------------------------------------------------
(* Inputs *)

\* a text of n chunks about 1..n
TextOf(n) == [k \in 1..n |-> [id |-> k, len |-> 51, pad |-> FALSE]]

ProcessVideoRequests(S, urls) ==
    [kind : {"process_video"}, session_id : S, url : urls]

Uploads(sources) ==
    {[valid |-> FALSE, size |-> 0, pdf |-> [fail |-> TRUE, text |-> <<>>]]}
        \cup [valid : {TRUE}, size : {MAX_PDF_BYTES, MAX_PDF_BYTES + 1}, pdf : sources]

ProcessPdfRequests(S, sources) ==
    [kind : {"process_pdf"}, session_id : S, filename : {"a.pdf"},
     base64_data : Uploads(sources)]

FlashcardRequests(S) == [kind : {"generate_flashcards"}, session_id : S, count : {10}]
QuizRequests(S) == [kind : {"generate_quiz"}, session_id : S, count : {5}]

CheckAnswerRequests(S) ==
    [kind : {"check_answer"}, session_id : S,
     question_index : (0 - MaxItems - 1)..MaxItems, selected_index : 0..2]

\* user messages: about nothing stored (0), about the subject of PieceA (1)
Queries == {[id |-> 0, len |-> 9, pad |-> FALSE], [id |-> 1, len |-> 12, pad |-> FALSE]}

ChatRequests(S, histories) ==
    [kind : {"chat"}, session_id : S, message : Queries, history : histories]

\* items of a quiz output
QuizItem(keys, ci, expl) ==
    [type |-> "dict", keys |-> keys,
     question |-> (CASE expl = "e1" -> "q1" [] expl = "e2" -> "q2" [] OTHER -> "q"),
     options |-> <<"a", "b", "c", "d">>,
     correct_index |-> ci, explanation |-> expl]
AllKeys == {"question", "options", "correct_index", "explanation"}
Q1 == QuizItem(AllKeys, JsonInt(1), "e1")
Q2 == QuizItem(AllKeys, [t |-> "digits", v |-> 2], "e2")
QD == QuizItem({"question", "options"}, JsonInt(0), "")
QN == [type |-> "str", keys |-> {}, question |-> "", options |-> <<>>,
       correct_index |-> JsonInt(0), explanation |-> ""]
QX == QuizItem(AllKeys, [t |-> "word", v |-> 0], "e1")
QZ == QuizItem(AllKeys, [t |-> "null", v |-> 0], "e2")

\* items of a flashcard output
Card(keys) == [type |-> "dict", keys |-> keys, front |-> "f", back |-> "b"]
CardItems == {Card({"front", "back"}), Card({"front"}),
              [type |-> "str", keys |-> {}, front |-> "", back |-> ""]}

\* the text of a model output of a given form: a JSON array of the items; a
\* JSON object with the array as a value; a JSON object without a list value;
\* a JSON literal; a sentence
RawForms == {"array", "object", "object_nolist", "scalar", "text"}

Serialize(items) ==
    <<Sym("[")>> \o [k \in 1..Len(items) |-> Elem(items[k])] \o <<Sym("]")>>

Render(form, items) ==
    CASE form = "array" -> Serialize(items)
      [] form = "object" -> <<Sym("{")>> \o Serialize(items) \o <<Sym("}")>>
      [] form = "object_nolist" -> <<Sym("{"), Sym("}")>>
      [] form = "scalar" -> <<Sym("lit")>>
      [] form = "text" -> <<Sym("word")>>

\* the completion call raising
NoCompletion == [ok |-> FALSE, raw |-> <<>>]

\* what a completion call gives: an exception, or a model output
Completions(itemLists) ==
    {NoCompletion}
        \cup {[ok |-> TRUE, raw |-> Render(fm, <<>>)] :
                 fm \in {"object_nolist", "scalar", "text"}}
        \cup {[ok |-> TRUE, raw |-> Render(fm, l)] :
                 fm \in {"array", "object"}, l \in itemLists}

StreamItems ==
    {[kind |-> "delta", text |-> "tok"], [kind |-> "delta", text |-> ""],
     [kind |-> "end", text |-> ""], [kind |-> "error", text |-> ""]}

----------------------------------------------------------------------------
(* Specifications *)

Init ==
    /\ documents = EmptyBag
    /\ _quiz_answer_cache = [s \in Sessions |-> None]
    /\ _explanation_cache = [s \in Sessions |-> None]
    /\ tasks = [t \in Slots |-> Idle]
    /\ ev = NoEvent

Failing == [fail |-> TRUE, text |-> <<>>]
Source(text) == [fail |-> FALSE, text |-> text]

Ok(fm, items) == [ok |-> TRUE, raw |-> Render(fm, items)]

(* One request at a time on one session, with every kind of input. *)

RichSources == Sources
PdfSources == {Failing, Source(<<PieceS>>), Source(<<PieceB, PieceS>>)}
RichQuizLists == SeqsUpTo({Q1, QD, QN}, MaxItems) \cup {<<Q2>>, <<Q1, QX>>, <<QZ>>}
RichCardLists == SeqsUpTo(CardItems, MaxItems)
Histories == {<<>>}

NextSeq ==
    \/ \E data \in ProcessVideoRequests({"s1"}, RichSources) : process_video(1, data)
    \/ \E data \in ProcessPdfRequests({"s1"}, PdfSources) : process_pdf(1, data)
    \/ \E ok \in BOOLEAN : ingest_embedded(1, ok)
    \/ delete_session_data(1, "s1")
    \/ \E data \in FlashcardRequests({"s1"}) : generate_flashcards_endpoint(1, data)
    \/ \E r \in Completions(RichCardLists) : generate_flashcards_resumed(1, r)
    \/ \E data \in QuizRequests({"s1"}) : generate_quiz_endpoint(1, data)
    \/ \E r \in Completions(RichQuizLists) : generate_quiz_resumed(1, r)
    \/ \E data \in CheckAnswerRequests({"s1"}) : check_answer(1, data)
    \/ \E data \in ChatRequests({"s1"}, Histories) : chat(1, data)
    \/ \E ok, found \in BOOLEAN : chat_embedded(1, ok, found)
    \/ \E ok \in BOOLEAN : chat_opened(1, ok)
    \/ \E item \in StreamItems : chat_delta(1, item)

SeqSpec == Init /\ [][NextSeq]_vars

(* One request at a time over two sessions: the writes and the reads of the table. *)

ReadSources == {Failing, Source(<<PieceA>>), Source(<<PieceB, PieceS, PieceA>>)}
ReadCompletions == {NoCompletion}

NextRead ==
    \/ \E data \in ProcessVideoRequests(Sessions, ReadSources) : process_video(1, data)
    \/ \E data \in ProcessPdfRequests(Sessions, {Source(<<PieceB>>)}) : process_pdf(1, data)
    \/ \E ok \in BOOLEAN : ingest_embedded(1, ok)
    \/ \E s \in Sessions : delete_session_data(1, s)
    \/ \E data \in FlashcardRequests(Sessions) : generate_flashcards_endpoint(1, data)
    \/ \E r \in ReadCompletions : generate_flashcards_resumed(1, r)
    \/ \E data \in QuizRequests(Sessions) : generate_quiz_endpoint(1, data)
    \/ \E r \in ReadCompletions : generate_quiz_resumed(1, r)
    \/ \E data \in ChatRequests(Sessions, Histories) : chat(1, data)
    \/ \E ok, found \in BOOLEAN : chat_embedded(1, ok, found)
    \/ \E ok \in {FALSE} : chat_opened(1, ok)

ReadSpec == Init /\ [][NextRead]_vars

(* Requests for one session in flight together. *)

SmallSources == {Failing, Source(<<PieceS>>), Source(<<PieceA>>), Source(<<PieceA, PieceB>>)}
SmallCompletions ==
    {NoCompletion, Ok("text", <<>>),
     Ok("array", <<Q1>>), Ok("array", <<QD, Q2>>)}

Next ==
    \E t \in Slots :
        \/ \E data \in ProcessVideoRequests({"s1"}, SmallSources) : process_video(t, data)
        \/ \E data \in ProcessPdfRequests({"s1"}, {Source(<<PieceB>>)}) : process_pdf(t, data)
        \/ \E ok \in BOOLEAN : ingest_embedded(t, ok)
        \/ delete_session_data(t, "s1")
        \/ \E data \in QuizRequests({"s1"}) : generate_quiz_endpoint(t, data)
        \/ \E r \in SmallCompletions : generate_quiz_resumed(t, r)
        \/ \E data \in [kind : {"check_answer"}, session_id : {"s1"},
                        question_index : 0..1, selected_index : 0..1] : check_answer(t, data)

Spec == Init /\ [][Next]_vars

(* embed_chunks alone, on lists of 0..MaxN texts. *)

NextEmbed ==
    \/ \E n \in 0..MaxN : embed_chunks(1, TextOf(n))
    \/ \E ok \in BOOLEAN : embed_chunks_resumed(1, ok)

EmbedSpec == Init /\ [][NextEmbed]_vars

(* Chat alone: histories of 0..MaxTurns turns, streams of distinct tokens.   *)
(* The event loop resumes a suspended chat when its upstream call answers,  *)
(* and a completion stream is finite (max_tokens), so chat steps are taken. *)

Turn(k) ==
    [role |-> IF k % 2 = 1 THEN "user" ELSE "assistant",
     content |-> [id |-> k, len |-> 5, pad |-> FALSE]]
HistoryOf(h) == [k \in 1..h |-> Turn(k)]
LongHistories == {HistoryOf(h) : h \in 0..MaxTurns}
TokenItems == StreamItems \cup {[kind |-> "delta", text |-> "ken"]}

ChatStep ==
    \/ \E ok, found \in BOOLEAN : chat_embedded(1, ok, found)
    \/ \E ok \in BOOLEAN : chat_opened(1, ok)
    \/ \E item \in TokenItems : chat_delta(1, item)

NextChat ==
    \/ \E data \in ChatRequests({"s1"}, LongHistories) : chat(1, data)
    \/ ChatStep

ChatSpec == Init /\ [][NextChat]_vars /\ WF_vars(ChatStep)

(* Two sessions at once: the requests of s1 in slot 1, those of s2 in slot 2, *)
(* every route, interleaved at the upstream calls.                          *)

PairSources == {Failing, Source(<<PieceA>>), Source(<<PieceB, PieceA>>)}
PairCompletions == {NoCompletion, Ok("array", <<Q1>>), Ok("array", <<QD, Q2>>)}
PairCards == {NoCompletion, Ok("array", <<Card({"front", "back"})>>)}
PairChecks(S) ==
    [kind : {"check_answer"}, session_id : S, question_index : 0..1, selected_index : {0}]
PairStream == {[kind |-> "delta", text |-> "tok"], [kind |-> "end", text |-> ""]}
SessionOf(t) == IF t = 1 THEN "s1" ELSE "s2"

NextPair ==
    \E t \in 1..2 :
        \/ \E data \in ProcessVideoRequests({SessionOf(t)}, PairSources) : process_video(t, data)
        \/ \E data \in ProcessPdfRequests({SessionOf(t)}, {Source(<<PieceA>>)}) :
               process_pdf(t, data)
        \/ \E ok \in BOOLEAN : ingest_embedded(t, ok)
        \/ delete_session_data(t, SessionOf(t))
        \/ \E data \in FlashcardRequests({SessionOf(t)}) : generate_flashcards_endpoint(t, data)
        \/ \E r \in PairCards : generate_flashcards_resumed(t, r)
        \/ \E data \in QuizRequests({SessionOf(t)}) : generate_quiz_endpoint(t, data)
        \/ \E r \in PairCompletions : generate_quiz_resumed(t, r)
        \/ \E data \in PairChecks({SessionOf(t)}) : check_answer(t, data)
        \/ \E data \in ChatRequests({SessionOf(t)}, Histories) : chat(t, data)
        \/ \E ok \in BOOLEAN : chat_embedded(t, ok, TRUE)
        \/ chat_opened(t, TRUE)
        \/ \E item \in PairStream : chat_delta(t, item)
        \/ chat_aborted(t)

PairSpec == Init /\ [][NextPair]_vars

(* parse_json_response alone, on one model output: a serialized array of    *)
(* objects, bare, inside fences, inside a JSON object or between prose; or  *)
(* any text of at most MaxSyms symbols.                                     *)

CardOf(front) == [Card({"front", "back"}) EXCEPT !.front = front]
ParseItems == {CardOf("f"), CardOf(FenceString), CardOf(BracketString)}
Arrays == SeqsUpTo(ParseItems, MaxItems)

Fenced(tag, text) ==
    <<Sym("fence")>> \o tag \o <<Sym("nl")>> \o text \o <<Sym("nl"), Sym("fence")>>

\* prose without and with square brackets, as in "see [1] here"
Proses == {<<Sym("word")>>,
           <<Sym("word"), Sym("["), Sym("lit"), Sym("]"), Sym("word")>>}

Symbols ==
    {Sym(c) : c \in {"[", "]", "{", "}", "fence", "tick", "json", "nl", "word", "lit"}}
        \cup {Elem(CardOf("f"))}

ParseTexts ==
    {Serialize(X) : X \in Arrays}
        \cup {Fenced(tag, Serialize(X)) : tag \in {<<>>, <<Sym("json")>>}, X \in Arrays}
        \cup {Render("object", X) : X \in Arrays}
        \cup {pre \o Serialize(X) \o post :
                 pre \in Proses, X \in Arrays, post \in Proses \cup {<<>>}}
        \cup SeqsUpTo(Symbols, MaxSyms)

ParseInit ==
    /\ documents = EmptyBag
    /\ _quiz_answer_cache = [s \in Sessions |-> None]
    /\ _explanation_cache = [s \in Sessions |-> None]
    /\ \E raw \in ParseTexts :
           tasks = [t \in Slots |-> IF t = 1 THEN [pc |-> "parse", raw |-> raw] ELSE Idle]
    /\ ev = NoEvent

NextParse == parse(1)

ParseSpec == ParseInit /\ [][NextParse]_vars

----------------------------------------------------------------------------
(* Properties *)

IngestKinds == {"process_video", "process_pdf"}

\* the last step answered its request with HTTP 200
Succeeded == ev.out # <<>> /\ "status" \in DOMAIN ev.out[1] /\ ev.out[1].status = 200

\* the text a successful ingestion request carries
TextOfRequest(op) ==
    IF op.kind = "process_video" THEN op.url.text ELSE op.base64_data.pdf.text

RowsOf(s) == Where(documents, {row \in BagToSet(documents) : row.session_id = s})

\* C1: in a run of requests one after the other, when an ingestion for s
\* succeeds the rows stored for s are exactly its chunks: one row per chunk,
\* chunk_index 0..n-1 in input order, with the source type of the request; no
\* row of an earlier ingestion remains and no row is stored twice.
C1_ReingestReplaces ==
    (ev.op.kind \in IngestKinds /\ Succeeded) =>
        LET s == ev.op.session_id
            chunks == chunk_text(TextOfRequest(ev.op))
            rows == RowsOf(s)
        IN  /\ \A row \in BagToSet(rows) : CopiesIn(row, rows) = 1
            /\ {<<row.chunk_index, row.content, row.source_type>> : row \in BagToSet(rows)}
                   = {<<k - 1, chunks[k], source_type(ev.op)>> : k \in 1..Len(chunks)}
            /\ BagCardinality(rows) = Len(chunks)
            /\ ev.out[1].chunk_count = Len(chunks)

\* a second ingestion succeeded after its delete step removed the two rows of
\* an earlier one, and stored one row
C1_Witness ==
    /\ ev.op.kind \in IngestKinds /\ Succeeded
    /\ ev.replaced.rows = 2
    /\ BagCardinality(RowsOf(ev.op.session_id)) = 1

\* C2: the rows stored for a session come from a single ingestion, in every
\* state of every interleaving of requests: no row is stored twice and no two
\* rows of a session have the same chunk_index or different source types.
C2_SingleIngestion ==
    \A s \in Sessions :
        LET rows == RowsOf(s)
        IN  /\ \A row \in BagToSet(rows) : CopiesIn(row, rows) = 1
            /\ \A r1, r2 \in BagToSet(rows) :
                   /\ r1.chunk_index = r2.chunk_index => r1 = r2
                   /\ r1.source_type = r2.source_type

\* C3: the questions generate_quiz returns have no correct_index field and an
\* empty explanation; the correct indices and the explanations of the model
\* output are in the caches of the session.
C3_QuizPayloadHidesAnswers ==
    (ev.op.kind = "generate_quiz" /\ Succeeded) =>
        /\ \A k \in 1..Len(ev.out[1].questions) :
               /\ DOMAIN ev.out[1].questions[k] = {"question", "options", "explanation"}
               /\ ev.out[1].questions[k].explanation = ""
        /\ _quiz_answer_cache[ev.op.session_id] # None
        /\ _explanation_cache[ev.op.session_id] # None
        /\ Len(_quiz_answer_cache[ev.op.session_id][1]) = Len(ev.out[1].questions)
        /\ Len(_explanation_cache[ev.op.session_id][1]) = Len(ev.out[1].questions)

\* a quiz whose model output gave the answer 1 and the explanation "e1"
C3_Witness ==
    /\ ev.op.kind = "generate_quiz" /\ Succeeded
    /\ ev.recv[1].raw = Serialize(<<Q1>>)
    /\ Len(ev.out[1].questions) = 1
    /\ _explanation_cache[ev.op.session_id] = Some(<<"e1">>)

\* an answer is cached for question i of session s
HasAnswer(s, i) ==
    /\ _quiz_answer_cache[s] # None
    /\ i >= 0 /\ i < Len(_quiz_answer_cache[s][1])

NotFound == <<HTTP(404, "No quiz found")>>

\* C4: check_answer(s, i, k) on a question i with a cached answer answers 200
\* with correct = TRUE exactly when k is the cached correct index of question
\* i, with that index and the cached explanation of question i whatever k is,
\* and leaves both caches as they were.
C4_CheckAnswerReadsCache ==
    [][(ev'.op.kind = "check_answer"
            /\ HasAnswer(ev'.op.session_id, ev'.op.question_index)) =>
          LET s == ev'.op.session_id
              i == ev'.op.question_index
              k == ev'.op.selected_index
          IN  /\ ev'.out = <<[status |-> 200,
                              correct |-> (k = _quiz_answer_cache[s][1][i + 1]),
                              correct_index |-> _quiz_answer_cache[s][1][i + 1],
                              explanation |-> _explanation_cache[s][1][i + 1]]>>
              /\ _quiz_answer_cache' = _quiz_answer_cache
              /\ _explanation_cache' = _explanation_cache]_vars

\* the second question of a two-question quiz checked with a selected index
\* above the cached one
C4_Witness ==
    /\ ev.op.kind = "check_answer" /\ Succeeded
    /\ ev.op.question_index = 1
    /\ Len(_quiz_answer_cache[ev.op.session_id][1]) = 2
    /\ ev.op.selected_index > ev.out[1].correct_index
    /\ ~ev.out[1].correct

\* C5: check_answer answers not-found (404) whenever no answer is cached for
\* the session and the question index it is given: no cached quiz, an empty
\* cached quiz, an index at or above the number of cached questions, a
\* negative index; it never answers with another question's answer or with
\* another error.
C5_NotFoundWithoutAnswer ==
    (ev.op.kind = "check_answer" /\ ~HasAnswer(ev.op.session_id, ev.op.question_index)) =>
        ev.out = NotFound

\* the answers a successful generate_quiz takes from the items of a model
\* output: for each JSON object, its correct_index (0 when absent) and its
\* explanation ("" when absent)
RECURSIVE AnswersOf(_)
AnswersOf(items) ==
    IF items = <<>> THEN [correct_indices |-> <<>>, explanations |-> <<>>]
    ELSE LET q == Head(items)
             rest == AnswersOf(Tail(items))
         IN  IF q.type # "dict" THEN rest
             ELSE [correct_indices |->
                       <<IF "correct_index" \in q.keys THEN q.correct_index.v ELSE 0>>
                           \o rest.correct_indices,
                   explanations |->
                       <<IF "explanation" \in q.keys THEN q.explanation ELSE "">>
                           \o rest.explanations]

\* the array elements written in a model output
ItemsOf(text) ==
    LET elems == SelectSeq(text, LAMBDA sym : sym.c = "elem")
    IN  [k \in 1..Len(elems) |-> elems[k].v]

\* the step runs delete_session_data: the operation itself, or the start of an
\* ingestion request that passed the checks before it
DeleteStep ==
    \/ ev'.op.kind = "delete_session_data"
    \/ /\ ev'.op.kind \in IngestKinds
       /\ tasks[1].pc = "idle"
       /\ ev'.out \notin {<<HTTP(400, "base64")>>, <<HTTP(400, "too large")>>}

QuizSuccessStep == ev'.op.kind = "generate_quiz" /\ Succeeded'

\* C6: with requests one after the other, a successful generate_quiz(s) leaves
\* as the cache entry of s exactly the answers of its own model output; a step
\* that runs delete_session_data(s) leaves no entry for s; an absent entry
\* becomes present only by a successful generate_quiz(s); and while the entry
\* is absent check_answer(s, i, k) answers not-found for every i.
C6_CacheFollowsQuizAndDelete ==
    [][/\ QuizSuccessStep =>
             LET answers == AnswersOf(ItemsOf(ev'.recv[1].raw))
             IN  /\ _quiz_answer_cache'[ev'.op.session_id] = Some(answers.correct_indices)
                 /\ _explanation_cache'[ev'.op.session_id] = Some(answers.explanations)
       /\ DeleteStep =>
             /\ _quiz_answer_cache'[ev'.op.session_id] = None
             /\ _explanation_cache'[ev'.op.session_id] = None
       /\ \A s \in Sessions :
             (_quiz_answer_cache[s] = None /\ _quiz_answer_cache'[s] # None) =>
                 (QuizSuccessStep /\ ev'.op.session_id = s)
       /\ (ev'.op.kind = "check_answer" /\ _quiz_answer_cache[ev'.op.session_id] = None) =>
             ev'.out = NotFound]_vars

\* a generation of one question succeeded over the cache entry of an earlier
\* generation, and the entry is its one answer
C6_Witness ==
    /\ ev.op.kind = "generate_quiz" /\ Succeeded
    /\ ev.replaced.answers
    /\ ev.recv[1].raw = Serialize(<<Q2>>)
    /\ _quiz_answer_cache[ev.op.session_id] = Some(<<2>>)
    /\ _explanation_cache[ev.op.session_id] = Some(<<"e2">>)

\* C7: every chunk text a read for session s returns, the ordered fetch of the
\* generators and the similarity search of chat alike, is the content of a row
\* stored under s.
C7_ReadsStayInSession ==
    ev.read # None =>
        \A k \in 1..Len(ev.read[1]) :
            ev.read[1][k] \in {row.content : row \in BagToSet(RowsOf(ev.op.session_id))}

\* a generator read the rows of its session while another session stored a
\* chunk that is not among them
C7_Witness ==
    /\ ev.op.kind \in {"generate_flashcards", "generate_quiz"}
    /\ ev.read # None /\ ev.read[1] # <<>>
    /\ \E row \in BagToSet(documents) :
           /\ row.session_id # ev.op.session_id
           /\ row.content \notin Range(ev.read[1])

\* C8: generate_flashcards and generate_quiz started on a session with zero
\* stored rows answer 404 and issue no completion call.
C8_NoContentNotFound ==
    (ev.op.kind \in {"generate_flashcards", "generate_quiz"}
         /\ ev.read # None
         /\ RowsOf(ev.op.session_id) = EmptyBag) =>
        /\ ev.out = <<HTTP(404, "ValueError")>>
        /\ ev.net = None
        /\ \A t \in Slots : tasks[t].pc # "completion"

\* a quiz generation that read no row answered not-found
C8_Witness ==
    /\ ev.op.kind = "generate_quiz"
    /\ ev.read = Some(<<>>)
    /\ ev.out = <<HTTP(404, "ValueError")>>
    /\ documents = EmptyBag

Ceil(n, b) == (n + b - 1) \div b

\* C9: embed_chunks on N texts issues its calls on the contiguous slices of at
\* most 100 texts, in order; when all succeed it has issued ceil(N/100) calls
\* (none for N = 0) and returns N vectors, vector i the embedding of text i;
\* when a call fails it raises and returns no vector.
C9_EmbedChunksBatches ==
    /\ (tasks[1].pc = "embed" /\ ev.net # None) =>
           LET f == tasks[1].f
               N == Len(f.chunks)
               c == f.calls
           IN  /\ c >= 1 /\ c <= Ceil(N, 100)
               /\ ev.net[1].input = SubSeq(f.chunks, 100 * (c - 1) + 1, Min(100 * c, N))
               /\ Len(ev.net[1].input) >= 1 /\ Len(ev.net[1].input) <= 100
    /\ (ev.op.kind = "embed_chunks" /\ ev.out # <<>>) =>
           LET N == Len(ev.op.chunks)
           IN  IF ev.out[1].exc = NoExc
               THEN /\ ev.out[1].calls = Ceil(N, 100)
                    /\ ev.out[1].vectors = [k \in 1..N |-> Embedding(ev.op.chunks[k])]
               ELSE /\ ev.out[1].vectors = <<>>
                    /\ ev.out[1].calls >= 1 /\ ev.out[1].calls <= Ceil(N, 100)

\* 201 texts embedded with three calls
C9_Witness ==
    /\ ev.op.kind = "embed_chunks" /\ ev.out # <<>>
    /\ ev.out[1].exc = NoExc
    /\ Len(ev.op.chunks) = 201
    /\ ev.out[1].calls = 3
    /\ Len(ev.out[1].vectors) = 201

IsStreamCall(net) ==
    net # None /\ net[1].api = "chat.completions.create" /\ net[1].stream

\* C10: a chat request whose similarity search returns nothing sends no error
\* event and issues the streaming completion call with the placeholder
\* sentence as the context of the system message; the context of every
\* streaming completion call has at least one character.
C10_EmptySearchPlaceholder ==
    /\ (ev.op.kind = "chat" /\ ev.read = Some(<<>>)) =>
           /\ ev.out = <<>>
           /\ IsStreamCall(ev.net)
           /\ ev.net[1].messages[1].role = "system"
           /\ ev.net[1].messages[1].context =
                  [placeholder |-> TRUE, chunks |-> <<>>, chars |-> 68]
    /\ IsStreamCall(ev.net) => ev.net[1].messages[1].context.chars > 0

\* a search that found nothing at or above the threshold in a session that
\* has rows
C10_Witness ==
    /\ ev.op.kind = "chat" /\ ev.read = Some(<<>>)
    /\ RowsOf(ev.op.session_id) # EmptyBag
    /\ IsStreamCall(ev.net)

ChatPcs == {"chat_embed", "chat_open", "chat_stream"}

\* the last step of the chat met a failure of an upstream call
ChatFailed ==
    ev.recv \in {Some(UpstreamError), Some(SearchError),
                 Some([kind |-> "error", text |-> ""])}

\* the events of a chat response: tokens only while the chat runs; once it is
\* over, tokens, then one error event if its last step failed, then one end
\* marker as the last event
C11_StreamShape ==
    ev.op.kind = "chat" =>
        LET sent == ev.stream.sent
            n == Len(sent)
        IN  IF tasks[1].pc \in ChatPcs
            THEN \A k \in 1..n : sent[k].sse = "token"
            ELSE /\ n >= 1 /\ sent[n] = SSE("done", "[DONE]")
                 /\ IF ChatFailed
                    THEN /\ n >= 2 /\ sent[n - 1].sse = "error"
                         /\ \A k \in 1..(n - 2) : sent[k].sse = "token"
                    ELSE \A k \in 1..(n - 1) : sent[k].sse = "token"

ChatOver ==
    /\ tasks[1].pc = "idle" /\ ev.op.kind = "chat"
    /\ ev.stream.sent # <<>>
    /\ ev.stream.sent[Len(ev.stream.sent)].sse = "done"

\* C11: every chat response ends, and ends with exactly one end marker; a
\* failure of the query embedding, of the similarity search, of the opening of
\* the completion call or of a read of the model stream puts exactly one error
\* event after the tokens already sent and right before the end marker, and no
\* token follows an error event.
C11_ChatStreamEnds ==
    /\ []C11_StreamShape
    /\ (tasks[1].pc \in ChatPcs) ~> ChatOver

\* a model stream failed after two tokens were sent
C11_Witness ==
    /\ ev.op.kind = "chat" /\ tasks[1].pc = "idle"
    /\ ev.recv = Some([kind |-> "error", text |-> ""])
    /\ ev.stream.sent = <<SSE("token", "tok"), SSE("token", "ken")>> \o ErrorThenDone

\* C12: parse_json_response applied to the serialization of an array X of
\* objects, and to that serialization inside fences with a json tag, returns
\* X, whatever the string values of the objects hold (fence markers, the word
\* json, square brackets).
C12_RoundTrip ==
    ev.op.kind = "parse_json_response" =>
        \A X \in Arrays :
            ev.op.raw \in {Serialize(X), Fenced(<<Sym("json")>>, Serialize(X))} =>
                (ev.out[1].exc = NoExc /\ ev.out[1].list = X)

\* arrays of objects whose string values hold no fence marker
PlainArrays == SeqsUpTo({CardOf("f"), CardOf(BracketString)}, MaxItems)

\* C13: parse_json_response applied to prose, then a well-formed array X, then
\* possibly more prose, returns X, also when the prose holds square brackets.
C13_ProseAroundArray ==
    ev.op.kind = "parse_json_response" =>
        \A X \in PlainArrays :
            ev.op.raw \in {pre \o Serialize(X) \o post :
                              pre \in Proses, post \in Proses \cup {<<>>}} =>
                (ev.out[1].exc = NoExc /\ ev.out[1].list = X)

\* C14: on every model output parse_json_response returns a sequence or
\* raises a ValueError (the only exception the generation endpoints handle);
\* no output, be it a JSON value that is neither array nor object, an object
\* without a list value, or a bracketed substring that is no JSON, makes it
\* raise anything else.
C14_OnlyValueError ==
    ev.op.kind = "parse_json_response" =>
        ev.out[1].exc \in {NoExc, "ValueError", "JSONDecodeError"}

\* the answer lists of the generations whose completion call can return
GenerationAnswers ==
    {AnswersOf(ItemsOf(r.raw)) : r \in {c \in SmallCompletions : c.ok /\ IsArray(c.raw)}}

\* C15: with generate_quiz calls of one session suspended together at their
\* completion calls, the cache entry of the session is always empty or the
\* correct indices and the explanations of one and the same generation, and
\* after each generation's write it is that generation's lists (so at the end
\* those of the last writer).
C15_CacheOfOneGeneration ==
    /\ \/ _quiz_answer_cache["s1"] = None /\ _explanation_cache["s1"] = None
       \/ \E a \in GenerationAnswers :
              /\ _quiz_answer_cache["s1"] = Some(a.correct_indices)
              /\ _explanation_cache["s1"] = Some(a.explanations)
    /\ (ev.op.kind = "generate_quiz" /\ ev.out # <<>> /\ ev.out[1].status = 200) =>
           LET a == AnswersOf(ItemsOf(ev.recv[1].raw))
           IN  /\ _quiz_answer_cache["s1"] = Some(a.correct_indices)
               /\ _explanation_cache["s1"] = Some(a.explanations)

\* a generation writes over the entry of another while a third call of the
\* session, started before the write, is still at its completion call
C15_Witness ==
    /\ ev.op.kind = "generate_quiz" /\ ev.out # <<>> /\ ev.out[1].status = 200
    /\ ev.replaced.answers
    /\ ev.recv[1].raw = Serialize(<<QD, Q2>>)
    /\ _quiz_answer_cache["s1"] = Some(AnswersOf(<<QD, Q2>>).correct_indices)
    /\ \E t \in Slots : tasks[t].pc = "completion" /\ tasks[t].op.kind = "generate_quiz"

\* what a read of the table by a request gives when the table holds docs
ReadBy(op, docs) ==
    IF op.kind = "chat"
    THEN retrieve_relevant_chunks(docs, Embedding(op.message), op.session_id,
                                  CHAT_TOP_K, CHAT_THRESHOLD)
    ELSE get_chunks_for_session(docs, op.session_id, FETCH_LIMIT)

\* a step of a request of another session leaves the rows and the cache entry
\* of s alone; a step of a request of s reads what it would read if the table
\* held the rows of s only, and an answer it gives comes from the entry of s
StepAround(s) ==
    IF ev'.op.session_id # s
    THEN /\ RowsOf(s)' = RowsOf(s)
         /\ _quiz_answer_cache'[s] = _quiz_answer_cache[s]
         /\ _explanation_cache'[s] = _explanation_cache[s]
    ELSE /\ ev'.read # None => ev'.read[1] \in ReadBy(ev'.op, RowsOf(s))
         /\ (ev'.op.kind = "check_answer" /\ ev'.out[1].status = 200) =>
                /\ _quiz_answer_cache[s] # None
                /\ \E k \in 1..Len(_quiz_answer_cache[s][1]) :
                       /\ ev'.out[1].correct_index = _quiz_answer_cache[s][1][k]
                       /\ ev'.out[1].explanation = _explanation_cache[s][1][k]

\* C16: every step of an operation on one session, interleaved in any way
\* with operations on another session, leaves the stored rows and the cache
\* entry of the other session unchanged, and what an operation reads and
\* answers depends on the rows and the entry of its own session only.
C16_SessionsIndependent == [][\A s \in Sessions : StepAround(s)]_vars

\* s1 deletes its rows and its cache entry while s2 holds rows and an entry
\* of its own and has a request in flight
C16_Witness ==
    /\ ev.op.kind = "delete_session_data" /\ ev.op.session_id = "s1"
    /\ ev.replaced.rows > 0 /\ ev.replaced.answers
    /\ RowsOf("s2") # EmptyBag
    /\ _quiz_answer_cache["s2"] # None
    /\ tasks[2].pc # "idle"

\* the texts of the token events among the SSE events sent
TokensOf(sent) ==
    LET tokens == SelectSeq(sent, LAMBDA event : event.sse = "token")
    IN  [k \in 1..Len(tokens) |-> tokens[k].data]

\* the deltas that are not empty
NonEmpty(deltas) == SelectSeq(deltas, LAMBDA text : text # "")

\* C17: the tokens delivered so far are, in order, the non-empty deltas read
\* from the model stream so far (so always a prefix of those produced): the
\* step that reads a non-empty delta sends it as one token event before the
\* next read, and the step that reads an empty delta sends nothing.
C17_TokensFollowDeltas ==
    ev.op.kind = "chat" =>
        /\ TokensOf(ev.stream.sent) = NonEmpty(ev.stream.deltas)
        /\ (ev.recv # None /\ "kind" \in DOMAIN ev.recv[1] /\ ev.recv[1].kind = "delta") =>
               /\ ev.stream.deltas # <<>>
               /\ ev.stream.deltas[Len(ev.stream.deltas)] = ev.recv[1].text
               /\ ev.out = IF ev.recv[1].text = "" THEN <<>>
                            ELSE <<SSE("token", ev.recv[1].text)>>

\* an empty delta was skipped, then a delta was forwarded
C17_Witness ==
    /\ ev.op.kind = "chat"
    /\ ev.stream.deltas = <<"", "ken">>
    /\ ev.stream.sent = <<SSE("token", "ken")>>
    /\ ev.out = <<SSE("token", "ken")>>

\* the step issues the streaming completion call of a chat request
OpensStream ==
    ev.op.kind = "chat" /\ ev.net # None /\ ev.net[1].api = "chat.completions.create"

\* C18: the message list of the completion call of a chat request with h
\* history turns is one system message, then the last min(h, 10) turns of the
\* history in their order with role and content unchanged, then the new user
\* message: at most 12 messages, and exactly 2 when the history is empty.
C18_MessageList ==
    OpensStream =>
        LET messages == ev.net[1].messages
            history == ev.op.history
            h == Len(history)
            m == IF h < 10 THEN h ELSE 10
        IN  /\ Len(messages) = m + 2
            /\ Len(messages) <= 12
            /\ h = 0 => Len(messages) = 2
            /\ messages[1].role = "system"
            /\ \A k \in 1..m :
                   /\ messages[1 + k].role = history[h - m + k].role
                   /\ messages[1 + k].content = history[h - m + k].content
            /\ messages[m + 2] = [role |-> "user", content |-> ev.op.message]

\* a history of eleven turns: the first turn is left out, twelve messages go
C18_Witness ==
    /\ OpensStream
    /\ Len(ev.op.history) = 11
    /\ Len(ev.net[1].messages) = 12
    /\ ev.net[1].messages[2].content = ev.op.history[2].content

\* the step ends a generation whose completion call returned a JSON array
ArrayReturned(kind) ==
    /\ ev.op.kind = kind
    /\ ev.recv # None /\ ev.recv[1].ok
    /\ ev.recv[1].raw = Serialize(ItemsOf(ev.recv[1].raw))

\* the items that are objects
Objects(items) == SelectSeq(items, LAMBDA item : item.type = "dict")

\* the cards among the items: the objects having both front and back
CardsOf(items) ==
    LET cards == SelectSeq(items, LAMBDA item :
                     item.type = "dict" /\ {"front", "back"} \subseteq item.keys)
    IN  [k \in 1..Len(cards) |-> [front |-> cards[k].front, back |-> cards[k].back]]

\* C19: for a model output that is an array of items, generate_flashcards
\* answers with exactly the items that are objects having front and back, in
\* order, and generate_quiz answers with one question for every item that is
\* an object, in order, caching 0 for a missing correct_index and "" for a
\* missing explanation.
C19_ItemsDroppedOrCoerced ==
    LET items == ItemsOf(ev.recv[1].raw)
    IN  /\ ArrayReturned("generate_flashcards") =>
               ev.out = <<[status |-> 200, flashcards |-> CardsOf(items)]>>
        /\ ArrayReturned("generate_quiz") =>
               /\ ev.out[1].status = 200
               /\ Len(ev.out[1].questions) = Len(Objects(items))
               /\ \A k \in 1..Len(Objects(items)) :
                      ev.out[1].questions[k].question = Objects(items)[k].question
               /\ _quiz_answer_cache["s1"] = Some(AnswersOf(items).correct_indices)
               /\ _explanation_cache["s1"] = Some(AnswersOf(items).explanations)

\* the request passes the input checks and its extractor returns a text
\* whose pieces all have a trimmed length of 50 or less
YieldsNoChunk(op) ==
    /\ op.kind \in IngestKinds
    /\ op.kind = "process_pdf" =>
           (op.base64_data.valid /\ op.base64_data.size <= MAX_PDF_BYTES)
    /\ ~(IF op.kind = "process_video" THEN op.url.fail ELSE op.base64_data.pdf.fail)
    /\ \A k \in 1..Len(TextOfRequest(op)) : TextOfRequest(op)[k].len <= 50

\* C20: an ingestion whose text yields no chunk is answered 422 at once, with
\* no embeddings call issued and no row stored for its session; and every row
\* of the table holds a trimmed text of more than 50 characters.
C20_ShortTextRejected ==
    /\ YieldsNoChunk(ev.op) =>
           /\ ev.out # <<>> /\ ev.out[1].status = 422
           /\ ev.net = None
           /\ tasks[1].pc = "idle"
           /\ RowsOf(ev.op.session_id) = EmptyBag
    /\ \A row \in BagToSet(documents) : ~row.content.pad /\ row.content.len > 50

\* a text of two pieces of trimmed length 50 (52 with the surrounding
\* whitespace) is rejected, after the stored document was deleted
C20_Witness ==
    /\ YieldsNoChunk(ev.op)
    /\ Len(TextOfRequest(ev.op)) = 2
    /\ ev.out[1].status = 422
    /\ ev.replaced.rows > 0

\* C21: every step of a chat request, the step in which the caller aborts the
\* stream after any number of delivered tokens included, leaves the stored
\* rows and the answer cache of every session unchanged.
C21_ChatChangesNothing ==
    [][ev'.op.kind = "chat" =>
          /\ documents' = documents
          /\ _quiz_answer_cache' = _quiz_answer_cache
          /\ _explanation_cache' = _explanation_cache]_vars

\* the caller aborts the chat of s1 after one delivered token, while both
\* sessions hold rows and answers
C21_Witness ==
    /\ ev.op.kind = "chat" /\ ev.op.session_id = "s1"
    /\ ev.recv = Some(Aborted)
    /\ TokensOf(ev.stream.sent) = <<"tok">>
    /\ \A s \in Sessions : RowsOf(s) # EmptyBag /\ _quiz_answer_cache[s] # None

\* C22: in every state of every interleaving, a session that has an answer
\* cache entry has stored rows: cached answers do not outlive the document
\* they were generated from.
C22_AnswersHaveDocument ==
    \A s \in Sessions :
        (_quiz_answer_cache[s] # None \/ _explanation_cache[s] # None) =>
            RowsOf(s) # EmptyBag

\* C23: for every session the list of correct indices and the list of
\* explanations are both absent, or both present and equally long; and right
\* after a successful generate_quiz both are as long as the returned list of
\* questions, answer i is that of returned question i, and the lookup of
\* check_answer finds an answer for every index of the returned list.
C23_CacheListsAligned ==
    /\ \A s \in Sessions :
           \/ _quiz_answer_cache[s] = None /\ _explanation_cache[s] = None
           \/ /\ _quiz_answer_cache[s] # None /\ _explanation_cache[s] # None
              /\ Len(_quiz_answer_cache[s][1]) = Len(_explanation_cache[s][1])
    /\ (ev.op.kind = "generate_quiz" /\ Succeeded) =>
           LET s == ev.op.session_id
               questions == ev.out[1].questions
               objects == Objects(ItemsOf(ev.recv[1].raw))
           IN  /\ Len(_quiz_answer_cache[s][1]) = Len(questions)
               /\ Len(objects) = Len(questions)
               /\ \A i \in 1..Len(questions) :
                      /\ questions[i].question = objects[i].question
                      /\ _quiz_answer_cache[s][1][i] =
                             (IF "correct_index" \in objects[i].keys
                              THEN objects[i].correct_index.v ELSE 0)
                      /\ _explanation_cache[s][1][i] =
                             (IF "explanation" \in objects[i].keys
                              THEN objects[i].explanation ELSE "")
                      /\ get_cached_answer(_quiz_answer_cache, _explanation_cache, s, i - 1)
                             = [exc |-> NoExc,
                                result |-> Some([correct_index |-> _quiz_answer_cache[s][1][i],
                                                 explanation |-> _explanation_cache[s][1][i]])]

\* a quiz of two questions, the first without correct_index and explanation,
\* written over the entry of an earlier quiz
C23_Witness ==
    /\ ev.op.kind = "generate_quiz" /\ Succeeded
    /\ Len(ev.out[1].questions) = 2
    /\ ev.out[1].questions[1].question # ev.out[1].questions[2].question
    /\ _quiz_answer_cache["s1"] = Some(<<0, 2>>)
    /\ _explanation_cache["s1"] = Some(<<"", "e2">>)
    /\ ev.replaced.answers

\* C24: a generate_quiz call that fails (no stored rows, the completion call
\* raising, a model output that does not parse, a correct_index that int()
\* rejects) changes neither cache at any of its steps: the entry of the
\* session stays what it was, with no partial list written.
C24_FailedQuizKeepsCache ==
    [][(ev'.op.kind = "generate_quiz" /\ ~Succeeded') =>
          /\ _quiz_answer_cache' = _quiz_answer_cache
          /\ _explanation_cache' = _explanation_cache]_vars

\* a generation fails at the second item of its output, after the first was
\* converted, and the answer of the earlier quiz is still the entry
C24_Witness ==
    /\ ev.op.kind = "generate_quiz"
    /\ ev.recv # None /\ ev.recv[1].ok /\ ev.recv[1].raw = Serialize(<<Q1, QX>>)
    /\ ev.out = <<HTTP(404, "ValueError")>>
    /\ _quiz_answer_cache["s1"] = Some(<<2>>)
    /\ _explanation_cache["s1"] = Some(<<"e2">>)

\* the event ends an ingestion request with an error: at the input checks of
\* process_pdf (early), or at a later step
FailedIngestion(event) ==
    /\ event.op.kind \in IngestKinds
    /\ event.out # <<>> /\ event.out[1].status # 200
FailedEarly(event) ==
    FailedIngestion(event) /\ event.out[1].detail \in {"base64", "too large"}
FailedLate(event) ==
    FailedIngestion(event) /\ event.out[1].detail \in {"extractor", "too short", "APIError"}

\* C25: with requests one after the other, an ingestion for s that fails at
\* the input checks (invalid base64, a PDF over 15 MB) leaves the rows and the
\* cache entry of s unchanged; one that fails later (extractor, zero chunks,
\* embeddings) leaves s with no row and no cache entry, and a generation for s
\* that follows is answered not-found.
C25_FailedIngestion ==
    [][/\ FailedIngestion(ev') => (FailedEarly(ev') \/ FailedLate(ev'))
       /\ FailedEarly(ev') =>
             /\ documents' = documents
             /\ _quiz_answer_cache' = _quiz_answer_cache
             /\ _explanation_cache' = _explanation_cache
       /\ \A s \in Sessions :
             (FailedLate(ev') /\ ev'.op.session_id = s) =>
                 /\ RowsOf(s)' = EmptyBag
                 /\ _quiz_answer_cache'[s] = None
                 /\ _explanation_cache'[s] = None
       /\ (/\ FailedLate(ev)
           /\ ev'.op.kind \in {"generate_flashcards", "generate_quiz"}
           /\ ev'.op.session_id = ev.op.session_id) =>
             ev'.out = <<HTTP(404, "ValueError")>>]_vars

\* the embeddings call of a re-ingestion fails: the rows and the answers the
\* session had before the request are gone
C25_Witness ==
    /\ FailedLate(ev)
    /\ ev.out[1].detail = "APIError"
    /\ ev.replaced.rows > 0 /\ ev.replaced.answers
    /\ RowsOf(ev.op.session_id) = EmptyBag
    /\ _quiz_answer_cache[ev.op.session_id] = None

====
